---- MODULE Spec2Model ----
(***************************************************************************)
(* Warehouse web application (src/src/app.py): two in-memory dictionaries, *)
(* warehouses (name -> Varasto) and articles (name -> size), and the       *)
(* request handlers that validate form input and mutate them.              *)
(*                                                                         *)
(* Texts (form fields, URL path segments) are tuples of one-character      *)
(* strings, so that str.strip() and float() are computed, not assumed.     *)
(* Python floats are records [k, v]: k = "fin" with an integer v, the      *)
(* special values nan, inf and -inf that float() also returns, and "none"  *)
(* for Python's None (what _parse_float returns on ValueError).            *)
(*                                                                         *)
(* The Varasto class (module varasto) is imported by app.py but is not     *)
(* part of the sources; it is modelled from section 4.1 of the             *)
(* specification.                                                          *)
(***************************************************************************)
EXTENDS Integers, Sequences, FiniteSets, TLC

VARIABLES
    warehouses,   \* app.py:10  dict name -> Varasto
    articles,     \* app.py:13  dict name -> size (float)
    response,     \* what the last request produced: handler, flashed messages,
                  \* the Varasto methods it called, outcome
    history,      \* history variable: facts about earlier requests (see Observe)
    threads       \* add-article requests in flight, one per worker thread

vars == <<warehouses, articles, response, history, threads>>

\* Largest number typed into a numeric form field.
MaxAmount == 2
\* Largest finite balance explored (a warehouse of infinite capacity has no other cap).
MaxSaldo == 2

-----------------------------------------------------------------------------
(* Python float values and their IEEE-754 comparisons and arithmetic.      *)

Fin(n) == [k |-> "fin", v |-> n]
NaN == [k |-> "nan", v |-> 0]
PInf == [k |-> "inf", v |-> 1]
NInf == [k |-> "inf", v |-> -1]
None == [k |-> "none", v |-> 0]

\* a < b on floats: False whenever either side is nan.
FLt(a, b) ==
    IF a.k = "nan" \/ b.k = "nan" THEN FALSE
    ELSE IF a.k = "inf" THEN a.v = -1 /\ b # NInf
    ELSE IF b.k = "inf" THEN b.v = 1
    ELSE a.v < b.v

FGt(a, b) == FLt(b, a)

\* a <= b on floats: False whenever either side is nan.
FLe(a, b) ==
    IF a.k = "nan" \/ b.k = "nan" THEN FALSE
    ELSE a = b \/ FLt(a, b)

FNeg(a) ==
    IF a.k = "nan" THEN NaN ELSE [k |-> a.k, v |-> 0 - a.v]

\* a + b on floats: nan is absorbing, inf + -inf is nan.
FAdd(a, b) ==
    IF a.k = "nan" \/ b.k = "nan" THEN NaN
    ELSE IF a.k = "inf" /\ b.k = "inf" THEN (IF a.v = b.v THEN a ELSE NaN)
    ELSE IF a.k = "inf" THEN a
    ELSE IF b.k = "inf" THEN b
    ELSE Fin(a.v + b.v)

FSub(a, b) == FAdd(a, FNeg(b))

-----------------------------------------------------------------------------
(* Texts: str.strip() and float().                                         *)

DigitChars == <<"0", "1", "2", "3", "4", "5", "6", "7", "8", "9">>

IsDigit(c) == \E i \in 1..Len(DigitChars) : DigitChars[i] = c

DigitVal(c) == (CHOOSE i \in 1..Len(DigitChars) : DigitChars[i] = c) - 1

RECURSIVE lstrip(_)
lstrip(s) ==
    IF s # <<>> /\ Head(s) = " " THEN lstrip(Tail(s)) ELSE s

RECURSIVE rstrip(_)
rstrip(s) ==
    IF s # <<>> /\ s[Len(s)] = " " THEN rstrip(SubSeq(s, 1, Len(s) - 1)) ELSE s

\* str.strip(): leading and trailing whitespace removed.
strip(s) == rstrip(lstrip(s))

RECURSIVE DigitsValue(_, _)
DigitsValue(s, acc) ==
    IF s = <<>> THEN acc
    ELSE DigitsValue(Tail(s), 10 * acc + DigitVal(Head(s)))

\* The unsigned part of a float literal: nan, inf, or a run of digits.
\* None stands for ValueError.
Unsigned(s) ==
    IF s = <<"n", "a", "n">> THEN NaN
    ELSE IF s = <<"i", "n", "f">> THEN PInf
    ELSE IF s # <<>> /\ \A i \in 1..Len(s) : IsDigit(s[i]) THEN Fin(DigitsValue(s, 0))
    ELSE None

\* float(text): surrounding whitespace ignored, optional sign, then the literal.
float(text) ==
    LET s == strip(text)
    IN  IF s = <<>> THEN None
        ELSE IF Head(s) = "-"
             THEN (IF Unsigned(Tail(s)) = None THEN None ELSE FNeg(Unsigned(Tail(s))))
        ELSE IF Head(s) = "+" THEN Unsigned(Tail(s))
        ELSE Unsigned(s)

\* request.form.get(key, default)
FormGet(form, key, default) ==
    IF key \in DOMAIN form THEN form[key] ELSE default

-----------------------------------------------------------------------------
(* Flashed messages and responses.                                         *)

Msg(text, category) == [message |-> text, category |-> category]

\* A handler that returned its redirect, having flashed the given messages.
Redirect(handler, flashed) ==
    [handler |-> handler, flashed |-> flashed, calls |-> <<>>,
     status |-> "redirect", raised |-> "None"]

\* A handler that ended with an exception nobody caught.
Fault(handler, exception) ==
    [handler |-> handler, flashed |-> <<>>, calls |-> <<>>,
     status |-> "fault", raised |-> exception]

\* The same response, of a handler that called the given Varasto methods.
Calling(resp, methods) == [resp EXCEPT !.calls = methods]

\* Mutant: unparseable text counts as 0 and nothing is flashed.
_parse_float_zero_on_error(value, error_msg) ==
    IF float(value) = None
    THEN [value |-> Fin(0), flashed |-> <<>>]
    ELSE [value |-> float(value), flashed |-> <<>>]

\* _parse_float: the float, or None after flashing error_msg.
_parse_float(value, error_msg) ==
    IF float(value) = None
    THEN [value |-> None, flashed |-> <<Msg(error_msg, "error")>>]
    ELSE [value |-> float(value), flashed |-> <<>>]

\* dict[key] = value
Put(dict, key, value) ==
    [x \in DOMAIN dict \cup {key} |-> IF x = key THEN value ELSE dict[x]]

\* del dict[key]
Del(dict, key) ==
    [x \in DOMAIN dict \ {key} |-> dict[x]]

-----------------------------------------------------------------------------
(* Varasto: the capacity-bounded accumulator (specification, section 4.1). *)
(* tilavuus is the capacity, saldo the balance.                            *)

\* create(capacity) fails with InvalidCapacity if capacity < 0.
VarastoRaises(tilavuus) == FLt(tilavuus, Fin(0))

\* create(capacity): the resulting balance is 0.
Varasto(tilavuus) == [tilavuus |-> tilavuus, saldo |-> Fin(0)]

\* available_space(): capacity - balance.
paljonko_mahtuu(v) == FSub(v.tilavuus, v.saldo)

\* deposit(amount): a negative amount is a no-op; balance + amount > capacity is
\* rejected with the balance unchanged; otherwise balance += amount.
lisaa_varastoon(v, maara) ==
    IF FLt(maara, Fin(0)) THEN [varasto |-> v, result |-> "Rejected"]
    ELSE IF FGt(FAdd(v.saldo, maara), v.tilavuus)
         THEN [varasto |-> v, result |-> "InsufficientSpace"]
    ELSE [varasto |-> [v EXCEPT !.saldo = FAdd(v.saldo, maara)], result |-> "Ok"]

\* withdraw(amount): a negative amount is a no-op; amount > balance is rejected
\* with the balance unchanged; otherwise balance -= amount.
ota_varastosta(v, maara) ==
    IF FLt(maara, Fin(0)) THEN [varasto |-> v, result |-> "Rejected"]
    ELSE IF FGt(maara, v.saldo)
         THEN [varasto |-> v, result |-> "InsufficientBalance"]
    ELSE [varasto |-> [v EXCEPT !.saldo = FSub(v.saldo, maara)], result |-> "Ok"]

-----------------------------------------------------------------------------
(* Sample inputs.                                                          *)

\* Values of the "name" field of the warehouse form.
NameTexts == { <<>>, <<" ">>, <<"A">>, <<" ", "B", " ">> }

\* Values of the "name" field of the article form.
ArticleNameTexts == { <<>>, <<" ">>, <<" ", "A">> }

\* Values of the "article" field of the add-article form.
ArticleChoices == { <<>>, <<"A", " ">>, <<"B">> }

\* Values of the <name> segment of a URL: never empty, never stripped.
PathNames == { <<"A">>, <<"B">> }

\* Values of the numeric form fields.
NumberTexts ==
    { <<"x">>, <<"n", "a", "n">>, <<"i", "n", "f">>, <<" ", "-", "0", "1">> }
    \cup { <<DigitChars[n + 1]>> : n \in 0..MaxAmount }

WarehouseForms ==
    { [name |-> n, capacity |-> t] : n \in NameTexts, t \in NumberTexts }
    \cup { [name |-> <<"A">>], [capacity |-> <<"1">>] }

AmountForms ==
    { [amount |-> t] : t \in NumberTexts } \cup { [other |-> <<>>] }

ArticleForms ==
    { [name |-> n, size |-> t] : n \in ArticleNameTexts, t \in NumberTexts }
    \cup { [name |-> <<"A">>], [size |-> <<"1">>] }

AddArticleForms ==
    { [article |-> n] : n \in ArticleChoices } \cup { [other |-> <<>>] }

-----------------------------------------------------------------------------
(* Request handlers (src/src/app.py).                                      *)

\* Mutant: the duplicate check is missing.
_validate_warehouse_name_no_duplicate_check(name) ==
    IF name = <<>> THEN "Warehouse name is required." ELSE "None"

\* Mutant: the empty-name check is missing.
_validate_warehouse_name_no_required_check(name) ==
    IF name \in DOMAIN warehouses THEN "Warehouse already exists." ELSE "None"

_validate_warehouse_name(name) ==
    IF name = <<>> THEN "Warehouse name is required."
    ELSE IF name \in DOMAIN warehouses THEN "Warehouse already exists."
    ELSE "None"

\* Mutant: the name is used as typed, without strip().
create_warehouse_name_not_stripped(form) ==
    LET name == FormGet(form, "name", <<>>)
        capacity == FormGet(form, "capacity", <<"0">>)
        error == _validate_warehouse_name(name)
        capacity_float == _parse_float(capacity, "Invalid capacity value.")
    IN  IF error # "None"
        THEN /\ response' = Redirect("create_warehouse", <<Msg(error, "error")>>)
             /\ UNCHANGED <<warehouses, articles>>
        ELSE IF capacity_float.value = None
        THEN /\ response' = Redirect("create_warehouse", capacity_float.flashed)
             /\ UNCHANGED <<warehouses, articles>>
        ELSE IF VarastoRaises(capacity_float.value)
        THEN /\ response' = Calling(Fault("create_warehouse", "InvalidCapacity"),
                                    <<"Varasto">>)
             /\ UNCHANGED <<warehouses, articles>>
        ELSE /\ warehouses' = Put(warehouses, name, Varasto(capacity_float.value))
             /\ response' = Calling(Redirect("create_warehouse",
                                <<Msg("Warehouse created successfully.", "success")>>),
                                <<"Varasto">>)
             /\ UNCHANGED articles

\* Mutant: the capacity is parsed before the name is validated.
create_warehouse_parse_first(form) ==
    LET name == strip(FormGet(form, "name", <<>>))
        capacity == FormGet(form, "capacity", <<"0">>)
        error == _validate_warehouse_name(name)
        capacity_float == _parse_float(capacity, "Invalid capacity value.")
    IN  IF capacity_float.value = None
        THEN /\ response' = Redirect("create_warehouse", capacity_float.flashed)
             /\ UNCHANGED <<warehouses, articles>>
        ELSE IF error # "None"
        THEN /\ response' = Redirect("create_warehouse", <<Msg(error, "error")>>)
             /\ UNCHANGED <<warehouses, articles>>
        ELSE IF VarastoRaises(capacity_float.value)
        THEN /\ response' = Calling(Fault("create_warehouse", "InvalidCapacity"),
                                    <<"Varasto">>)
             /\ UNCHANGED <<warehouses, articles>>
        ELSE /\ warehouses' = Put(warehouses, name, Varasto(capacity_float.value))
             /\ response' = Calling(Redirect("create_warehouse",
                                <<Msg("Warehouse created successfully.", "success")>>),
                                <<"Varasto">>)
             /\ UNCHANGED articles

\* POST /warehouses
create_warehouse(form) ==
    LET name == strip(FormGet(form, "name", <<>>))
        capacity == FormGet(form, "capacity", <<"0">>)
        error == _validate_warehouse_name(name)
        capacity_float == _parse_float(capacity, "Invalid capacity value.")
    IN  IF error # "None"
        THEN /\ response' = Redirect("create_warehouse", <<Msg(error, "error")>>)
             /\ UNCHANGED <<warehouses, articles>>
        ELSE IF capacity_float.value = None
        THEN /\ response' = Redirect("create_warehouse", capacity_float.flashed)
             /\ UNCHANGED <<warehouses, articles>>
        ELSE IF VarastoRaises(capacity_float.value)
        THEN /\ response' = Calling(Fault("create_warehouse", "InvalidCapacity"),
                                    <<"Varasto">>)
             /\ UNCHANGED <<warehouses, articles>>
        ELSE /\ warehouses' = Put(warehouses, name, Varasto(capacity_float.value))
             /\ response' = Calling(Redirect("create_warehouse",
                                <<Msg("Warehouse created successfully.", "success")>>),
                                <<"Varasto">>)
             /\ UNCHANGED articles

\* Mutant: a missing warehouse is created empty instead of reported (setdefault).
add_to_warehouse_creates_missing(name, form) ==
    LET amount == FormGet(form, "amount", <<"0">>)
        amount_float == _parse_float(amount, "Invalid amount value.")
    IN  IF name \notin DOMAIN warehouses
        THEN /\ warehouses' = Put(warehouses, name, Varasto(Fin(0)))
             /\ response' = Redirect("add_to_warehouse",
                                <<Msg("Warehouse not found.", "error")>>)
             /\ UNCHANGED articles
        ELSE IF amount_float.value = None
        THEN /\ response' = Redirect("add_to_warehouse", amount_float.flashed)
             /\ UNCHANGED <<warehouses, articles>>
        ELSE /\ warehouses' = [warehouses EXCEPT ![name] =
                                lisaa_varastoon(@, amount_float.value).varasto]
             /\ response' = Calling(Redirect("add_to_warehouse",
                                <<Msg("Added", "success")>>), <<"lisaa_varastoon">>)
             /\ UNCHANGED articles

\* POST /warehouses/<name>/add
add_to_warehouse(name, form) ==
    LET amount == FormGet(form, "amount", <<"0">>)
        amount_float == _parse_float(amount, "Invalid amount value.")
    IN  IF name \notin DOMAIN warehouses
        THEN /\ response' = Redirect("add_to_warehouse",
                                <<Msg("Warehouse not found.", "error")>>)
             /\ UNCHANGED <<warehouses, articles>>
        ELSE IF amount_float.value = None
        THEN /\ response' = Redirect("add_to_warehouse", amount_float.flashed)
             /\ UNCHANGED <<warehouses, articles>>
        ELSE /\ warehouses' = [warehouses EXCEPT ![name] =
                                lisaa_varastoon(@, amount_float.value).varasto]
             /\ response' = Calling(Redirect("add_to_warehouse",
                                <<Msg("Added", "success")>>), <<"lisaa_varastoon">>)
             /\ UNCHANGED articles

\* POST /warehouses/<name>/remove
remove_from_warehouse(name, form) ==
    LET amount == FormGet(form, "amount", <<"0">>)
        amount_float == _parse_float(amount, "Invalid amount value.")
    IN  IF name \notin DOMAIN warehouses
        THEN /\ response' = Redirect("remove_from_warehouse",
                                <<Msg("Warehouse not found.", "error")>>)
             /\ UNCHANGED <<warehouses, articles>>
        ELSE IF amount_float.value = None
        THEN /\ response' = Redirect("remove_from_warehouse", amount_float.flashed)
             /\ UNCHANGED <<warehouses, articles>>
        ELSE /\ warehouses' = [warehouses EXCEPT ![name] =
                                ota_varastosta(@, amount_float.value).varasto]
             /\ response' = Calling(Redirect("remove_from_warehouse",
                                <<Msg("Removed", "success")>>), <<"ota_varastosta">>)
             /\ UNCHANGED articles

\* Mutant: the membership test is missing, so del raises KeyError on an absent name.
delete_warehouse_no_membership_test(name) ==
    IF name \in DOMAIN warehouses
    THEN /\ warehouses' = Del(warehouses, name)
         /\ response' = Redirect("delete_warehouse", <<Msg("Warehouse deleted.", "success")>>)
         /\ UNCHANGED articles
    ELSE /\ response' = Fault("delete_warehouse", "KeyError")
         /\ UNCHANGED <<warehouses, articles>>

\* POST /warehouses/<name>/delete
delete_warehouse(name) ==
    IF name \in DOMAIN warehouses
    THEN /\ warehouses' = Del(warehouses, name)
         /\ response' = Redirect("delete_warehouse", <<Msg("Warehouse deleted.", "success")>>)
         /\ UNCHANGED articles
    ELSE /\ response' = Redirect("delete_warehouse", <<>>)
         /\ UNCHANGED <<warehouses, articles>>

\* Mutant: the duplicate check is missing.
_validate_article_name_no_duplicate_check(name) ==
    IF name = <<>> THEN "Article name is required." ELSE "None"

_validate_article_name(name) ==
    IF name = <<>> THEN "Article name is required."
    ELSE IF name \in DOMAIN articles THEN "Article already exists."
    ELSE "None"

_validate_article_size(size_float) ==
    IF size_float # None /\ FLe(size_float, Fin(0))
    THEN "Article size must be greater than 0."
    ELSE "None"

\* _save_article: the error message returned, the messages flashed while
\* parsing, and the articles dictionary afterwards.
_save_article(name, size) ==
    LET size_float == _parse_float(size, "Invalid size value.")
        size_error == _validate_article_size(size_float.value)
    IN  IF size_error # "None"
        THEN [error |-> size_error, flashed |-> size_float.flashed, articles |-> articles]
        ELSE IF size_float.value # None
        THEN [error |-> "None", flashed |-> size_float.flashed,
              articles |-> Put(articles, name, size_float.value)]
        ELSE [error |-> "None", flashed |-> size_float.flashed, articles |-> articles]

\* POST /articles
create_article(form) ==
    LET name == strip(FormGet(form, "name", <<>>))
        error == _validate_article_name(name)
        saved == _save_article(name, FormGet(form, "size", <<"0">>))
    IN  IF error # "None"
        THEN /\ response' = Redirect("create_article", <<Msg(error, "error")>>)
             /\ UNCHANGED <<warehouses, articles>>
        ELSE /\ articles' = saved.articles
             /\ response' = Redirect("create_article",
                    IF saved.error # "None"
                    THEN saved.flashed \o <<Msg(saved.error, "error")>>
                    ELSE IF name \in DOMAIN saved.articles
                    THEN saved.flashed \o <<Msg("Article created", "success")>>
                    ELSE saved.flashed)
             /\ UNCHANGED warehouses

\* POST /articles/<name>/delete
\* Mutant: deleting an article takes its size back out of every warehouse.
delete_article_withdraws_size(name) ==
    IF name \in DOMAIN articles
    THEN /\ articles' = Del(articles, name)
         /\ response' = Redirect("delete_article", <<Msg("Article deleted.", "success")>>)
         /\ warehouses' = [n \in DOMAIN warehouses |->
                                ota_varastosta(warehouses[n], articles[name]).varasto]
    ELSE /\ response' = Redirect("delete_article", <<>>)
         /\ UNCHANGED <<warehouses, articles>>

delete_article(name) ==
    IF name \in DOMAIN articles
    THEN /\ articles' = Del(articles, name)
         /\ response' = Redirect("delete_article", <<Msg("Article deleted.", "success")>>)
         /\ UNCHANGED warehouses
    ELSE /\ response' = Redirect("delete_article", <<>>)
         /\ UNCHANGED <<warehouses, articles>>

\* Mutant: the comparison is >= instead of >, so an exact fit is turned away.
_try_add_article_exact_fit_rejected(wh_name, article_name) ==
    LET size == articles[article_name]
        available == paljonko_mahtuu(warehouses[wh_name])
    IN  IF FLe(available, size)
        THEN [error |-> "Not enough space", warehouses |-> warehouses,
              calls |-> <<"paljonko_mahtuu">>]
        ELSE [error |-> "None",
              warehouses |-> [warehouses EXCEPT ![wh_name] =
                                lisaa_varastoon(@, size).varasto],
              calls |-> <<"paljonko_mahtuu", "lisaa_varastoon">>]

\* Mutant: the space check is missing and the deposit is made in every case.
_try_add_article_unchecked(wh_name, article_name) ==
    [error |-> "None",
     warehouses |-> [warehouses EXCEPT ![wh_name] =
                        lisaa_varastoon(@, articles[article_name]).varasto],
     calls |-> <<"lisaa_varastoon">>]

\* _try_add_article: the error message returned and the warehouses afterwards.
_try_add_article(wh_name, article_name) ==
    LET size == articles[article_name]
        available == paljonko_mahtuu(warehouses[wh_name])
    IN  IF FGt(size, available)
        THEN [error |-> "Not enough space", warehouses |-> warehouses,
              calls |-> <<"paljonko_mahtuu">>]
        ELSE [error |-> "None",
              warehouses |-> [warehouses EXCEPT ![wh_name] =
                                lisaa_varastoon(@, size).varasto],
              calls |-> <<"paljonko_mahtuu", "lisaa_varastoon">>]

\* Mutant: the article is looked up before the warehouse.
_validate_add_article_request_article_first(wh_name, article_name) ==
    IF article_name \notin DOMAIN articles THEN "Article not found."
    ELSE IF wh_name \notin DOMAIN warehouses THEN "Warehouse not found."
    ELSE "None"

_validate_add_article_request(wh_name, article_name) ==
    IF wh_name \notin DOMAIN warehouses THEN "Warehouse not found."
    ELSE IF article_name \notin DOMAIN articles THEN "Article not found."
    ELSE "None"

\* POST /warehouses/<wh_name>/add-article
add_article_to_warehouse(wh_name, form) ==
    LET article_name == strip(FormGet(form, "article", <<>>))
        error == _validate_add_article_request(wh_name, article_name)
    IN  IF error # "None"
        THEN /\ response' = Redirect("add_article_to_warehouse", <<Msg(error, "error")>>)
             /\ UNCHANGED <<warehouses, articles>>
        ELSE LET added == _try_add_article(wh_name, article_name)
             IN  /\ warehouses' = added.warehouses
                 /\ response' = Calling(Redirect("add_article_to_warehouse",
                        IF added.error # "None"
                        THEN <<Msg(added.error, "error")>>
                        ELSE <<Msg("Added article", "success")>>), added.calls)
                 /\ UNCHANGED articles

-----------------------------------------------------------------------------
(* The state machine: one request at a time, each handled to completion.   *)

\* Worker threads of the server that handle add-article requests concurrently.
Threads == { "t1", "t2" }

\* A thread with no request.
Idle ==
    [pc |-> "idle", wh_name |-> <<>>, article_name |-> <<>>, size |-> None,
     available |-> None]

\* Nothing recorded yet.
NoHistory ==
    [deleted |-> {}, recreated |-> {}, unparsed |-> FALSE, applied |-> {},
     removed_applied |-> {}]

Init ==
    /\ warehouses = <<>>
    /\ articles = <<>>
    /\ response = [handler |-> "none", flashed |-> <<>>, calls |-> <<>>,
                   status |-> "none", raised |-> "None"]
    /\ history = NoHistory
    /\ threads = [t \in Threads |-> Idle]

\* Finite balances stay within the explored range.
WithinBounds(whs) ==
    \A n \in DOMAIN whs : whs[n].saldo.k = "fin" => whs[n].saldo.v <= MaxSaldo

CreateWarehouse == \E form \in WarehouseForms : create_warehouse(form)

AddToWarehouse ==
    \E name \in PathNames, form \in AmountForms :
        add_to_warehouse(name, form) /\ WithinBounds(warehouses')

RemoveFromWarehouse ==
    \E name \in PathNames, form \in AmountForms : remove_from_warehouse(name, form)

DeleteWarehouse == \E name \in PathNames : delete_warehouse(name)

CreateArticle == \E form \in ArticleForms : create_article(form)

DeleteArticle == \E name \in PathNames : delete_article(name)

AddArticleToWarehouse ==
    \E wh_name \in PathNames, form \in AddArticleForms :
        add_article_to_warehouse(wh_name, form) /\ WithinBounds(warehouses')

\* One request at a time; nothing is recorded about earlier requests.
Next ==
    \/ CreateWarehouse /\ UNCHANGED <<history, threads>>
    \/ AddToWarehouse /\ UNCHANGED <<history, threads>>
    \/ RemoveFromWarehouse /\ UNCHANGED <<history, threads>>
    \/ DeleteWarehouse /\ UNCHANGED <<history, threads>>
    \/ CreateArticle /\ UNCHANGED <<history, threads>>
    \/ DeleteArticle /\ UNCHANGED <<history, threads>>
    \/ AddArticleToWarehouse /\ UNCHANGED <<history, threads>>

Spec == Init /\ [][Next]_vars

-----------------------------------------------------------------------------
(* The same requests, with a history variable that records what a state    *)
(* alone does not show. A specification tracks the facts its properties    *)
(* need and leaves the others as they start:                               *)
(*   deleted          the absent warehouse names that were deleted while   *)
(*                    holding a non-zero balance                           *)
(*   recreated        the names among them that the last request created   *)
(*   unparsed         the last request carried a numeric field that        *)
(*                    float() rejects                                      *)
(*   applied          the articles present that some request applied       *)
(*   removed_applied  the applied articles that the last request deleted   *)

Observe(track, unparsed, applied_now) ==
    history' =
        [deleted |->
            IF track # "deleted" THEN {}
            ELSE { n \in DOMAIN warehouses \cup history.deleted :
                     /\ n \notin DOMAIN warehouses'
                     /\ \/ n \in history.deleted
                        \/ warehouses[n].saldo # Fin(0) },
         recreated |->
            IF track # "deleted" THEN {}
            ELSE (DOMAIN warehouses' \ DOMAIN warehouses) \cap history.deleted,
         unparsed |-> track = "unparsed" /\ unparsed,
         applied |->
            IF track # "applied" THEN {}
            ELSE (history.applied \cup applied_now) \cap DOMAIN articles',
         removed_applied |->
            IF track # "applied" THEN {}
            ELSE (history.applied \ DOMAIN articles') \cap DOMAIN articles]

\* The text of a numeric form field is one float() rejects.
Unparsed(form, key) == float(FormGet(form, key, <<"0">>)) = None

HCreateWarehouse(track) ==
    \E form \in WarehouseForms :
        create_warehouse(form) /\ Observe(track, Unparsed(form, "capacity"), {})

HAddToWarehouse(track) ==
    \E name \in PathNames, form \in AmountForms :
        /\ add_to_warehouse(name, form)
        /\ WithinBounds(warehouses')
        /\ Observe(track, Unparsed(form, "amount"), {})

HRemoveFromWarehouse(track) ==
    \E name \in PathNames, form \in AmountForms :
        remove_from_warehouse(name, form) /\ Observe(track, Unparsed(form, "amount"), {})

HDeleteWarehouse(track) ==
    \E name \in PathNames : delete_warehouse(name) /\ Observe(track, FALSE, {})

HCreateArticle(track) ==
    \E form \in ArticleForms :
        create_article(form) /\ Observe(track, Unparsed(form, "size"), {})

HDeleteArticle(track) ==
    \E name \in PathNames : delete_article(name) /\ Observe(track, FALSE, {})

HAddArticleToWarehouse(track) ==
    \E wh_name \in PathNames, form \in AddArticleForms :
        /\ add_article_to_warehouse(wh_name, form)
        /\ WithinBounds(warehouses')
        /\ Observe(track, FALSE,
                   IF response'.flashed = <<Msg("Added article", "success")>>
                   THEN { strip(FormGet(form, "article", <<>>)) }
                   ELSE {})

NextH(track) ==
    \/ HCreateWarehouse(track) /\ UNCHANGED threads
    \/ HAddToWarehouse(track) /\ UNCHANGED threads
    \/ HRemoveFromWarehouse(track) /\ UNCHANGED threads
    \/ HDeleteWarehouse(track) /\ UNCHANGED threads
    \/ HCreateArticle(track) /\ UNCHANGED threads
    \/ HDeleteArticle(track) /\ UNCHANGED threads
    \/ HAddArticleToWarehouse(track) /\ UNCHANGED threads

\* Tracks the warehouses deleted with a non-zero balance.
SpecDeleted == Init /\ [][NextH("deleted")]_vars

\* Tracks whether the last request's numeric field was unparseable.
SpecUnparsed == Init /\ [][NextH("unparsed")]_vars

\* Tracks the articles that were applied to a warehouse.
SpecApplied == Init /\ [][NextH("applied")]_vars

-----------------------------------------------------------------------------
(* Concurrent requests. app.run() serves each request in a thread of its   *)
(* own and no lock guards the two dictionaries, so the statements of one   *)
(* handler interleave with other requests. An add-article request is split *)
(* at each access to the shared dictionaries; the requests that create and *)
(* delete entries run between its steps. There is one warehouse name, and  *)
(* the numeric fields are positive finite numbers, so that every fault is  *)
(* one of the interleaving.                                                *)

ConcurrentWarehouseForms ==
    { [name |-> <<"A">>, capacity |-> <<DigitChars[c + 1]>>] : c \in 1..MaxAmount }

ConcurrentArticleForms ==
    { [name |-> <<" ", "A">>, size |-> <<DigitChars[c + 1]>>] : c \in 1..MaxAmount }

\* The thread's request ends with the given response and the thread is free.
Return(t, resp) ==
    /\ response' = resp
    /\ threads' = [threads EXCEPT ![t] = Idle]

\* add_article_to_warehouse up to the call of _try_add_article: the request
\* arrives and is validated.
Validate(t) ==
    \E wh_name \in PathNames, form \in AddArticleForms :
        LET article_name == strip(FormGet(form, "article", <<>>))
            error == _validate_add_article_request(wh_name, article_name)
        IN  /\ threads[t].pc = "idle"
            /\ IF error # "None"
               THEN Return(t, Redirect("add_article_to_warehouse",
                                       <<Msg(error, "error")>>))
               ELSE /\ threads' = [threads EXCEPT ![t] =
                            [@ EXCEPT !.pc = "validated", !.wh_name = wh_name,
                                      !.article_name = article_name]]
                    /\ UNCHANGED response
            /\ UNCHANGED <<warehouses, articles, history>>

\* size = articles[article_name]
ReadSize(t) ==
    /\ threads[t].pc = "validated"
    /\ IF threads[t].article_name \notin DOMAIN articles
       THEN Return(t, Fault("add_article_to_warehouse", "KeyError"))
       ELSE /\ threads' = [threads EXCEPT ![t] =
                    [@ EXCEPT !.pc = "sized",
                              !.size = articles[threads[t].article_name]]]
            /\ UNCHANGED response
    /\ UNCHANGED <<warehouses, articles, history>>

\* available = warehouses[wh_name].paljonko_mahtuu()
ReadAvailable(t) ==
    /\ threads[t].pc = "sized"
    /\ IF threads[t].wh_name \notin DOMAIN warehouses
       THEN Return(t, Fault("add_article_to_warehouse", "KeyError"))
       ELSE /\ threads' = [threads EXCEPT ![t] =
                    [@ EXCEPT !.pc = "checked",
                       !.available = paljonko_mahtuu(warehouses[threads[t].wh_name])]]
            /\ UNCHANGED response
    /\ UNCHANGED <<warehouses, articles, history>>

\* if size > available: return the error; warehouses[wh_name].lisaa_varastoon(size);
\* then the message add_article_to_warehouse flashes.
Deposit(t) ==
    LET wh_name == threads[t].wh_name
    IN  /\ threads[t].pc = "checked"
        /\ IF FGt(threads[t].size, threads[t].available)
           THEN /\ Return(t, Calling(Redirect("add_article_to_warehouse",
                                <<Msg("Not enough space", "error")>>),
                                <<"paljonko_mahtuu">>))
                /\ UNCHANGED warehouses
           ELSE IF wh_name \notin DOMAIN warehouses
           THEN /\ Return(t, Fault("add_article_to_warehouse", "KeyError"))
                /\ UNCHANGED warehouses
           ELSE /\ warehouses' = [warehouses EXCEPT ![wh_name] =
                        lisaa_varastoon(@, threads[t].size).varasto]
                /\ Return(t, Calling(Redirect("add_article_to_warehouse",
                                <<Msg("Added article", "success")>>),
                                <<"paljonko_mahtuu", "lisaa_varastoon">>))
        /\ UNCHANGED <<articles, history>>

ConcurrentCreateWarehouse ==
    \E form \in ConcurrentWarehouseForms : create_warehouse(form)

ConcurrentCreateArticle ==
    \E form \in ConcurrentArticleForms : create_article(form)

NextConcurrent ==
    \/ \E t \in Threads : Validate(t)
    \/ \E t \in Threads : ReadSize(t)
    \/ \E t \in Threads : ReadAvailable(t)
    \/ \E t \in Threads : Deposit(t)
    \/ ConcurrentCreateWarehouse /\ UNCHANGED <<history, threads>>
    \/ ConcurrentCreateArticle /\ UNCHANGED <<history, threads>>
    \/ DeleteWarehouse /\ UNCHANGED <<history, threads>>
    \/ DeleteArticle /\ UNCHANGED <<history, threads>>

SpecConcurrent == Init /\ [][NextConcurrent]_vars

\* Concurrent add-article requests alone: entries are created and never deleted.
NextAddArticles ==
    \/ \E t \in Threads : Validate(t)
    \/ \E t \in Threads : ReadSize(t)
    \/ \E t \in Threads : ReadAvailable(t)
    \/ \E t \in Threads : Deposit(t)
    \/ ConcurrentCreateWarehouse /\ UNCHANGED <<history, threads>>
    \/ ConcurrentCreateArticle /\ UNCHANGED <<history, threads>>

SpecAddArticles == Init /\ [][NextAddArticles]_vars

-----------------------------------------------------------------------------
(* Properties.                                                             *)

Flashed(text, category) == <<Msg(text, category)>>

\* The request ended in a failure of the given kind: the message flashed as an
\* error, or the exception that ended the handler.
FailedWith(resp, text, exception) ==
    \/ resp.status = "redirect" /\ resp.flashed = Flashed(text, "error")
    \/ resp.status = "fault" /\ resp.raised = exception

\* The request reported a rejection and no success.
Rejected(resp) ==
    /\ \E i \in 1..Len(resp.flashed) : resp.flashed[i].category = "error"
    /\ \A i \in 1..Len(resp.flashed) : resp.flashed[i].category # "success"

\* C1: after any sequence of requests every warehouse has 0 <= balance <= capacity.
C1_BalanceWithinCapacity ==
    \A n \in DOMAIN warehouses :
        /\ FLe(Fin(0), warehouses[n].saldo)
        /\ FLe(warehouses[n].saldo, warehouses[n].tilavuus)

\* C2: adding an amount greater than the available space of an existing warehouse
\* leaves the balance unchanged and the request reports a rejection, not a success.
C2_AddBeyondSpaceRejected ==
    [][response'.handler = "add_to_warehouse" =>
       \A name \in PathNames, form \in AmountForms :
        LET amount == float(FormGet(form, "amount", <<"0">>))
        IN  ( /\ name \in DOMAIN warehouses
              /\ amount # None
              /\ FGt(amount, paljonko_mahtuu(warehouses[name]))
              /\ add_to_warehouse(name, form) )
            => /\ warehouses'[name].saldo = warehouses[name].saldo
               /\ Rejected(response')]_vars

\* C3: removing an amount greater than the balance of an existing warehouse leaves
\* the balance unchanged and the request reports a rejection, not a success.
C3_RemoveBeyondBalanceRejected ==
    [][response'.handler = "remove_from_warehouse" =>
       \A name \in PathNames, form \in AmountForms :
        LET amount == float(FormGet(form, "amount", <<"0">>))
        IN  ( /\ name \in DOMAIN warehouses
              /\ amount # None
              /\ FGt(amount, warehouses[name].saldo)
              /\ remove_from_warehouse(name, form) )
            => /\ warehouses'[name].saldo = warehouses[name].saldo
               /\ Rejected(response')]_vars

\* C4: applying an existing article whose size is strictly greater than the available
\* space of an existing warehouse is rejected with "Not enough space" and changes
\* neither collection.
C4_ArticleTooBigRejected ==
    [][response'.handler = "add_article_to_warehouse" =>
       \A wh_name \in PathNames, form \in AddArticleForms :
        LET article_name == strip(FormGet(form, "article", <<>>))
        IN  ( /\ wh_name \in DOMAIN warehouses
              /\ article_name \in DOMAIN articles
              /\ FGt(articles[article_name], paljonko_mahtuu(warehouses[wh_name]))
              /\ add_article_to_warehouse(wh_name, form) )
            => /\ warehouses' = warehouses
               /\ articles' = articles
               /\ response'.status = "redirect"
               /\ response'.flashed = Flashed("Not enough space", "error")]_vars

\* C4 witness: an add-article request was turned away for lack of space, and the
\* article is indeed larger than the space of some warehouse.
C4_Witness ==
    /\ response.handler = "add_article_to_warehouse"
    /\ response.flashed = Flashed("Not enough space", "error")
    /\ \E n \in DOMAIN warehouses, a \in DOMAIN articles :
           FGt(articles[a], paljonko_mahtuu(warehouses[n]))

\* C5: applying an existing article whose size is at most the available space of an
\* existing warehouse (an exact fit included) succeeds, and the balance afterwards
\* is the previous balance plus the article's size.
C5_ArticleFitsApplied ==
    [][response'.handler = "add_article_to_warehouse" =>
       \A wh_name \in PathNames, form \in AddArticleForms :
        LET article_name == strip(FormGet(form, "article", <<>>))
        IN  ( /\ wh_name \in DOMAIN warehouses
              /\ article_name \in DOMAIN articles
              /\ FLe(articles[article_name], paljonko_mahtuu(warehouses[wh_name]))
              /\ add_article_to_warehouse(wh_name, form) )
            => /\ response'.status = "redirect"
               /\ response'.flashed = Flashed("Added article", "success")
               /\ warehouses'[wh_name].saldo =
                      FAdd(warehouses[wh_name].saldo, articles[article_name])
               /\ warehouses'[wh_name].tilavuus = warehouses[wh_name].tilavuus]_vars

\* C5 witness: an article was applied and filled a warehouse of finite, non-zero
\* capacity exactly.
C5_Witness ==
    /\ response.handler = "add_article_to_warehouse"
    /\ response.flashed = Flashed("Added article", "success")
    /\ \E n \in DOMAIN warehouses, a \in DOMAIN articles :
           /\ warehouses[n].tilavuus.k = "fin"
           /\ warehouses[n].saldo = warehouses[n].tilavuus
           /\ articles[a] = warehouses[n].saldo

\* C6: creating a warehouse under a name that is already a key is rejected as a
\* duplicate; the existing entry keeps its capacity and balance and the number of
\* warehouses does not change.
C6_DuplicateWarehouseRejected ==
    [][response'.handler = "create_warehouse" =>
       \A form \in WarehouseForms :
        LET name == strip(FormGet(form, "name", <<>>))
        IN  ( /\ name \in DOMAIN warehouses
              /\ create_warehouse(form) )
            => /\ warehouses'[name] = warehouses[name]
               /\ Cardinality(DOMAIN warehouses') = Cardinality(DOMAIN warehouses)
               /\ response'.status = "redirect"
               /\ response'.flashed = Flashed("Warehouse already exists.", "error")]_vars

\* C6 witness: a duplicate was turned away while a warehouse holds a non-zero balance.
C6_Witness ==
    /\ response.handler = "create_warehouse"
    /\ response.flashed = Flashed("Warehouse already exists.", "error")
    /\ \E n \in DOMAIN warehouses : FGt(warehouses[n].saldo, Fin(0))

\* C7: creating a warehouse under a valid new name with a capacity that is not a
\* non-negative real (unparseable, or below 0) fails with InvalidCapacity and inserts
\* no warehouse.
C7_InvalidCapacityRejected ==
    [][response'.handler = "create_warehouse" =>
       \A form \in WarehouseForms :
        LET name == strip(FormGet(form, "name", <<>>))
            capacity == float(FormGet(form, "capacity", <<"0">>))
        IN  ( /\ name # <<>>
              /\ name \notin DOMAIN warehouses
              /\ ~(capacity.k = "fin" /\ capacity.v >= 0)
              /\ create_warehouse(form) )
            => /\ warehouses' = warehouses
               /\ FailedWith(response', "Invalid capacity value.", "InvalidCapacity")]_vars

\* C8: every article in the collection has a size strictly greater than 0.
C8_ArticleSizePositive ==
    \A a \in DOMAIN articles : FGt(articles[a], Fin(0))

\* C9: add-article checks the warehouse before the article: with the warehouse
\* missing the failure reported is the warehouse's, whether or not the article
\* exists; with only the article missing it is the article's; neither collection
\* changes.
C9_WarehouseCheckedFirst ==
    [][response'.handler = "add_article_to_warehouse" =>
       \A wh_name \in PathNames, form \in AddArticleForms :
        LET article_name == strip(FormGet(form, "article", <<>>))
        IN  ( /\ wh_name \notin DOMAIN warehouses \/ article_name \notin DOMAIN articles
              /\ add_article_to_warehouse(wh_name, form) )
            => /\ warehouses' = warehouses
               /\ articles' = articles
               /\ response'.status = "redirect"
               /\ response'.flashed =
                      IF wh_name \notin DOMAIN warehouses
                      THEN Flashed("Warehouse not found.", "error")
                      ELSE Flashed("Article not found.", "error")]_vars

\* C9 witness: an add-article request reported the missing warehouse while no
\* article existed either (and some other warehouse did).
C9_Witness ==
    /\ response.handler = "add_article_to_warehouse"
    /\ response.flashed = Flashed("Warehouse not found.", "error")
    /\ DOMAIN articles = {}
    /\ DOMAIN warehouses # {}

\* C10: adding a negative amount to an existing warehouse leaves the balance
\* unchanged and the request reports a rejection, not a success.
C10_AddNegativeRejected ==
    [][response'.handler = "add_to_warehouse" =>
       \A name \in PathNames, form \in AmountForms :
        LET amount == float(FormGet(form, "amount", <<"0">>))
        IN  ( /\ name \in DOMAIN warehouses
              /\ amount # None
              /\ FLt(amount, Fin(0))
              /\ add_to_warehouse(name, form) )
            => /\ warehouses'[name].saldo = warehouses[name].saldo
               /\ Rejected(response')]_vars

\* C11: every successful create_warehouse with a capacity c >= 0 yields a warehouse
\* of capacity c, balance 0 and available space c, also under a name that was
\* deleted earlier while holding a non-zero balance.
C11_CreatedWarehouseIsFresh ==
    [][response'.handler = "create_warehouse" =>
       \A form \in WarehouseForms :
        LET name == strip(FormGet(form, "name", <<>>))
            c == float(FormGet(form, "capacity", <<"0">>))
        IN  ( /\ create_warehouse(form)
              /\ response'.flashed = Flashed("Warehouse created successfully.", "success")
              /\ FLe(Fin(0), c) )
            => /\ name \in DOMAIN warehouses'
               /\ warehouses'[name].tilavuus = c
               /\ warehouses'[name].saldo = Fin(0)
               /\ paljonko_mahtuu(warehouses'[name]) = c]_vars

\* C11 witness: the last request created a warehouse of non-zero capacity under a
\* name deleted earlier with a non-zero balance.
C11_Witness ==
    /\ response.handler = "create_warehouse"
    /\ \E n \in history.recreated :
           /\ n \in DOMAIN warehouses
           /\ FGt(warehouses[n].tilavuus, Fin(0))
           /\ warehouses[n].saldo = Fin(0)

\* The request ended normally and reported no error.
NoError(resp) ==
    /\ resp.status = "redirect"
    /\ \A i \in 1..Len(resp.flashed) : resp.flashed[i].category # "error"

\* dict2 is dict1 without the key, every other entry as it was.
Removed(dict1, dict2, key) ==
    /\ DOMAIN dict2 = DOMAIN dict1 \ {key}
    /\ \A k \in DOMAIN dict2 : dict2[k] = dict1[k]

C13_AmountOnMissingWarehouse ==
    [][response'.handler \in {"add_to_warehouse", "remove_from_warehouse"} =>
       \A name \in PathNames, form \in AmountForms :
        ( /\ name \notin DOMAIN warehouses
          /\ add_to_warehouse(name, form) \/ remove_from_warehouse(name, form) )
        => /\ response'.status = "redirect"
           /\ response'.flashed = Flashed("Warehouse not found.", "error")
           /\ name \notin DOMAIN warehouses'
           /\ warehouses' = warehouses
           /\ articles' = articles]_vars

\* C13 witness: a removal was refused for a missing warehouse while another
\* warehouse exists.
C13_Witness ==
    /\ response.handler = "remove_from_warehouse"
    /\ response.flashed = Flashed("Warehouse not found.", "error")
    /\ DOMAIN warehouses # {}
    /\ \E name \in PathNames : name \notin DOMAIN warehouses

\* The sample amount forms whose amount float() rejects.
UnparsedAmountForms == { f \in AmountForms : Unparsed(f, "amount") }

\* C14: an add or remove request on an existing warehouse whose amount text float()
\* rejects reports "Invalid amount value", calls no method of the warehouse and
\* leaves the warehouse's balance unchanged.
C14_UnparseableAmount ==
    [][response'.handler \in {"add_to_warehouse", "remove_from_warehouse"} =>
       \A name \in PathNames \cap DOMAIN warehouses, form \in UnparsedAmountForms :
        (add_to_warehouse(name, form) \/ remove_from_warehouse(name, form))
        => /\ response'.status = "redirect"
           /\ response'.flashed = Flashed("Invalid amount value.", "error")
           /\ response'.calls = <<>>
           /\ warehouses'[name].saldo = warehouses[name].saldo
           /\ warehouses' = warehouses]_vars

\* C14 witness: an unparseable amount was reported for a warehouse that holds a
\* balance.
C14_Witness ==
    /\ response.handler \in {"add_to_warehouse", "remove_from_warehouse"}
    /\ response.flashed = Flashed("Invalid amount value.", "error")
    /\ \E n \in DOMAIN warehouses : FGt(warehouses[n].saldo, Fin(0))

\* C15: create_article with a name that is already a key of the article collection
\* is rejected as a duplicate and the existing article keeps its size, whatever
\* size the request carried.
C15_DuplicateArticleRejected ==
    [][response'.handler = "create_article" =>
       \A form \in ArticleForms :
        LET name == strip(FormGet(form, "name", <<>>))
        IN  (name \in DOMAIN articles /\ create_article(form))
            => /\ response'.status = "redirect"
               /\ response'.flashed = Flashed("Article already exists.", "error")
               /\ name \in DOMAIN articles'
               /\ articles'[name] = articles[name]
               /\ articles' = articles
               /\ warehouses' = warehouses]_vars

\* C15 witness: a duplicate article was refused and the article is still there.
C15_Witness ==
    /\ response.handler = "create_article"
    /\ response.flashed = Flashed("Article already exists.", "error")
    /\ \E a \in DOMAIN articles : FGt(articles[a], Fin(0))

\* The sample forms whose name is empty once stripped.
NamelessWarehouseForms ==
    { f \in WarehouseForms : strip(FormGet(f, "name", <<>>)) = <<>> }

NamelessArticleForms ==
    { f \in ArticleForms : strip(FormGet(f, "name", <<>>)) = <<>> }

\* C16: create_warehouse and create_article with an empty or whitespace-only name
\* are rejected with "name is required" and insert nothing; after every request no
\* key of either collection is the empty string.
C16_NameRequired ==
    [][ /\ response'.handler = "create_warehouse" =>
           \A form \in NamelessWarehouseForms :
            create_warehouse(form)
            => /\ response'.flashed = Flashed("Warehouse name is required.", "error")
               /\ warehouses' = warehouses /\ articles' = articles
        /\ response'.handler = "create_article" =>
           \A form \in NamelessArticleForms :
            create_article(form)
            => /\ response'.flashed = Flashed("Article name is required.", "error")
               /\ warehouses' = warehouses /\ articles' = articles
        /\ \A k \in DOMAIN warehouses' \cup DOMAIN articles' : strip(k) # <<>>
      ]_vars

\* C16 witness: a nameless article was refused while both collections hold
\* entries.
C16_Witness ==
    /\ response.handler = "create_article"
    /\ response.flashed = Flashed("Article name is required.", "error")
    /\ DOMAIN warehouses # {}
    /\ DOMAIN articles # {}

\* The failure reasons a response reports: its error messages, and the exception
\* that ended the handler.
Reasons(resp) ==
    Cardinality({ i \in DOMAIN resp.flashed : resp.flashed[i].category = "error" })
    + (IF resp.status = "fault" THEN 1 ELSE 0)

Succeeded(resp) ==
    \E i \in DOMAIN resp.flashed : resp.flashed[i].category = "success"

\* The sample forms whose numeric field float() rejects, and the article forms
\* whose size is zero.
UnparsedWarehouseForms == { f \in WarehouseForms : Unparsed(f, "capacity") }

UnparsedArticleForms == { f \in ArticleForms : Unparsed(f, "size") }

ZeroSizeArticleForms ==
    { f \in ArticleForms : float(FormGet(f, "size", <<"0">>)) = Fin(0) }

\* C17: create_warehouse and create_article validate in the order name required,
\* duplicate name, numeric parse, size > 0: an empty name with an unparseable number
\* reports the missing name, a duplicate name with an unparseable number reports
\* the duplicate, a fresh name with an unparseable number reports the number, and
\* a rejected request reports exactly one failure reason.
C17_ValidationOrder ==
    [][ /\ response'.handler = "create_warehouse" =>
           /\ ~Succeeded(response') => Reasons(response') = 1
           /\ \A form \in UnparsedWarehouseForms :
               LET name == strip(FormGet(form, "name", <<>>))
               IN  create_warehouse(form) =>
                   response'.flashed =
                     IF name = <<>>
                     THEN Flashed("Warehouse name is required.", "error")
                     ELSE IF name \in DOMAIN warehouses
                     THEN Flashed("Warehouse already exists.", "error")
                     ELSE Flashed("Invalid capacity value.", "error")
        /\ response'.handler = "create_article" =>
           /\ ~Succeeded(response') => Reasons(response') = 1
           /\ \A form \in UnparsedArticleForms \cup ZeroSizeArticleForms :
               LET name == strip(FormGet(form, "name", <<>>))
               IN  create_article(form) =>
                   response'.flashed =
                     IF name = <<>>
                     THEN Flashed("Article name is required.", "error")
                     ELSE IF name \in DOMAIN articles
                     THEN Flashed("Article already exists.", "error")
                     ELSE IF form \in UnparsedArticleForms
                     THEN Flashed("Invalid size value.", "error")
                     ELSE Flashed("Article size must be greater than 0.", "error")
      ]_vars

\* C17 witness: a request that carried both a duplicate warehouse name and an
\* unparseable capacity was answered with the duplicate.
C17_Witness ==
    /\ response.handler = "create_warehouse"
    /\ history.unparsed
    /\ response.flashed = Flashed("Warehouse already exists.", "error")

\* C18: every request ends with a success or a failure result, never with an
\* uncaught exception, in every interleaving of concurrent requests; in particular
\* an add-article request whose warehouse or article another request deletes
\* between its validation and its lookup or deposit.
C18_NoUncaughtFault == response.status # "fault"

\* C19: between concurrent add-article requests, a request that reports success
\* has increased the balance of its warehouse by exactly the size of its article,
\* and no balance exceeds its capacity.
C19_SuccessMeansDeposited ==
    [][ /\ \A t \in Threads :
            ( /\ threads[t].pc = "checked"
              /\ threads'[t].pc = "idle"
              /\ Succeeded(response') )
            => warehouses'[threads[t].wh_name].saldo =
                   FAdd(warehouses[threads[t].wh_name].saldo, threads[t].size)
        /\ \A n \in DOMAIN warehouses' :
            FLe(warehouses'[n].saldo, warehouses'[n].tilavuus)
      ]_vars

\* The warehouses are the same ones with the same capacities, and only the one
\* called name may have another balance.
OnlyBalanceOf(name) ==
    /\ DOMAIN warehouses' = DOMAIN warehouses
    /\ \A n \in DOMAIN warehouses :
        /\ warehouses'[n].tilavuus = warehouses[n].tilavuus
        /\ n # name => warehouses'[n] = warehouses[n]

\* C20: a request touches only its target: create_article and delete_article leave
\* every warehouse's capacity and balance as they were, also when the deleted
\* article had been applied; add, remove and add-article on warehouse W leave every
\* other warehouse, W's capacity and the article collection as they were.
C20_OnlyTheTargetChanges ==
    [][ /\ response'.handler \in {"create_article", "delete_article"}
            => warehouses' = warehouses
        /\ response'.handler \in {"add_to_warehouse", "remove_from_warehouse"}
            => /\ articles' = articles
               /\ \A name \in PathNames :
                   \/ OnlyBalanceOf(name)
                   \/ \A form \in AmountForms :
                       /\ ~add_to_warehouse(name, form)
                       /\ ~remove_from_warehouse(name, form)
        /\ response'.handler = "add_article_to_warehouse"
            => /\ articles' = articles
               /\ \A name \in PathNames :
                   \/ OnlyBalanceOf(name)
                   \/ \A form \in AddArticleForms :
                       ~add_article_to_warehouse(name, form)
      ]_vars

\* C20 witness: an article that had been applied to a warehouse was deleted and the
\* warehouse still holds a balance.
C20_Witness ==
    /\ response.handler = "delete_article"
    /\ history.removed_applied # {}
    /\ \E n \in DOMAIN warehouses : FGt(warehouses[n].saldo, Fin(0))

====
